---- MODULE Spec2Model ----
(***************************************************************************)
(* apple_map: open-addressing hash table with tombstones, an intrusive     *)
(* insertion-order list and doubling growth (src/apple_map.c).             *)
(*                                                                         *)
(* Words wider than TLC's integers (the 64-bit accumulator and the 32-bit  *)
(* fingerprint of fnv_1a_hash) are little-endian sequences of bytes.       *)
(* Pointers to buckets are records [blk, idx]: blk names the array the     *)
(* bucket lives in (an array is named by its element count, which is       *)
(* unique because capacity only doubles), NULL is block 0 and the address  *)
(* of map->first, which apple_map_new casts to a bucket*, is HEAD.         *)
(***************************************************************************)
EXTENDS Integers, Sequences, FiniteSets, TLC

\* ------------------------------------------------------------------------
\* Bounds of the model
\* ------------------------------------------------------------------------
MaxOps == 3
MaxWarmup == 46
MinWarmup == 42

\* ------------------------------------------------------------------------
\* Program constants
\* ------------------------------------------------------------------------
DEFAULT_CAPACITY == 30
MAX_CAPACITY_PERCENTAGE_NUM == 3
MAX_CAPACITY_PERCENTAGE_DEN == 4
RESIZE_FACTOR_PERCENTAGE == 2
TOMBSTONE == 57005

\* ------------------------------------------------------------------------
\* 64-bit and 32-bit words as little-endian byte sequences
\* ------------------------------------------------------------------------
XorBit(a, b, w) == IF (a \div w) % 2 = (b \div w) % 2 THEN 0 ELSE w

Xor8(a, b) ==
    XorBit(a, b, 1) + XorBit(a, b, 2) + XorBit(a, b, 4) + XorBit(a, b, 8)
  + XorBit(a, b, 16) + XorBit(a, b, 32) + XorBit(a, b, 64) + XorBit(a, b, 128)

Xor64(x, y) == [i \in 1..8 |-> Xor8(x[i], y[i])]

\* x * y modulo 2^64, schoolbook on bytes
Mul64(x, y) ==
    LET col[k \in 0..7] ==
            LET s[i \in 0..k] ==
                    x[i + 1] * y[k - i + 1] + (IF i = 0 THEN 0 ELSE s[i - 1])
            IN  s[k]
        t[k \in 0..7] == col[k] + (IF k = 0 THEN 0 ELSE t[k - 1] \div 256)
    IN  [i \in 1..8 |-> t[i - 1] % 256]

FNV_INIT == <<197, 157, 28, 129, 0, 0, 0, 0>>
FNV_MUL_BLOCK == <<185, 229, 228, 28, 109, 71, 88, 191>>
FNV_MUL_LAST == <<147, 253, 89, 102, 184, 254, 232, 214>>

fnv_1a_hash(data, size) ==
    LET blocks_count == size \div 8
        rem == size % 8
        acc[i \in 0..blocks_count] ==
            IF i = 0 THEN FNV_INIT
            ELSE Mul64(Xor64(acc[i - 1],
                             [j \in 1..8 |-> data[8 * (i - 1) + j]]),
                       FNV_MUL_BLOCK)
        last == [j \in 1..8 |->
                    IF j = 1 THEN size % 256
                    ELSE IF j - 1 <= rem THEN data[8 * blocks_count + j - 1]
                    ELSE 0]
        hash == IF rem = 0 THEN acc[blocks_count]
                ELSE Mul64(Xor64(acc[blocks_count], last), FNV_MUL_LAST)
    IN  [i \in 1..4 |-> Xor8(hash[i], hash[i + 4])]

\* hash % capacity for a 32-bit little-endian hash
HashMod(hash, capacity) ==
    LET r4 == hash[4] % capacity
        r3 == ((r4 * 256) + hash[3]) % capacity
        r2 == ((r3 * 256) + hash[2]) % capacity
    IN  ((r2 * 256) + hash[1]) % capacity

\* ------------------------------------------------------------------------
\* Caller-owned key memory.  A key argument is a non-NULL address (1, 2, ...)
\* with the bytes stored there; addresses 1 and 2 hold equal bytes.
\* ------------------------------------------------------------------------
NULLKEY == 0

KeyMem ==
    << <<104, 101, 108, 108, 111>>,
       <<104, 101, 108, 108, 111>>,
       <<98>>,
       <<99>> >>

KeyRefs == DOMAIN KeyMem

KeySize(key) == Len(KeyMem[key])

KeyContents == {KeyMem[k] : k \in KeyRefs}

Values == {1, 2}

HashTable == [k \in KeyRefs |-> fnv_1a_hash(KeyMem[k], KeySize(k))]

\* the callers' fnv_1a_hash(key, key_size), computed once per key
hash_of(key, key_size) ==
    IF key_size = KeySize(key) THEN HashTable[key]
    ELSE fnv_1a_hash(KeyMem[key], key_size)

memcmp(p, q, n) ==
    IF SubSeq(KeyMem[p], 1, n) = SubSeq(KeyMem[q], 1, n) THEN 0 ELSE 1

\* ------------------------------------------------------------------------
\* struct bucket, struct apple_map and the heap of bucket arrays
\* ------------------------------------------------------------------------
NULL == [blk |-> 0, idx |-> 0]
HEAD == [blk |-> -1, idx |-> 0]

ZeroBucket ==
    [next |-> NULL, key |-> NULLKEY, key_size |-> 0,
     hash |-> <<0, 0, 0, 0>>, value |-> 0]

calloc(n) == [i \in 0..(n - 1) |-> ZeroBucket]

apple_map_new ==
    [map |-> [buckets |-> DEFAULT_CAPACITY, first |-> NULL, last |-> HEAD,
              capacity |-> DEFAULT_CAPACITY, len |-> 0, tombstone_len |-> 0],
     heap |-> [b \in {DEFAULT_CAPACITY} |-> calloc(DEFAULT_CAPACITY)]]

\* *p for a bucket pointer p; through HEAD only ->next is ever accessed,
\* and it aliases map->first
Deref(st, p) ==
    IF p = HEAD THEN [ZeroBucket EXCEPT !.next = st.map.first]
    ELSE st.heap[p.blk][p.idx]

\* p->next = q
SetNext(st, p, q) ==
    IF p = HEAD THEN [st EXCEPT !.map.first = q]
    ELSE [st EXCEPT !.heap[p.blk][p.idx].next = q]

BucketAt(st, index) == [blk |-> st.map.buckets, idx |-> index]

\* ------------------------------------------------------------------------
\* resolve
\* ------------------------------------------------------------------------
\* mutant of resolve_hit: every bucket without a key reference ends the
\* probe, a tombstone included
resolve_hit_any_keyless(entry, key, key_size, hash) ==
    \/ entry.key = NULLKEY
    \/ /\ entry.key_size = key_size
       /\ entry.hash = hash
       /\ memcmp(entry.key, key, key_size) = 0

\* the exit condition of resolve's loop for one bucket
resolve_hit(entry, key, key_size, hash) ==
    LET null_key == entry.key = NULLKEY
        null_value == entry.value = 0
    IN  \/ null_key /\ null_value
        \/ /\ ~null_key
           /\ entry.key_size = key_size
           /\ entry.hash = hash
           /\ memcmp(entry.key, key, key_size) = 0

\* The loop of resolve from `index` after n probes.  Nothing the loop reads
\* changes while it runs, so once all capacity buckets were probed without
\* an exit it never exits ("spin").
RECURSIVE resolve_loop(_, _, _, _, _, _)
resolve_loop(st, key, key_size, hash, index, n) ==
    IF n >= st.map.capacity THEN [kind |-> "spin", idx |-> index]
    ELSE IF resolve_hit(st.heap[st.map.buckets][index], key, key_size, hash)
         THEN [kind |-> "ret", idx |-> index]
         ELSE resolve_loop(st, key, key_size, hash,
                           (index + 1) % st.map.capacity, n + 1)

\* map->buckets == NULL (a failed calloc): &map->buckets[index] is
\* dereferenced, which is undefined ("ub")
resolve(st, key, key_size, hash) ==
    IF st.map.buckets = 0 THEN [kind |-> "ub", idx |-> 0]
    ELSE resolve_loop(st, key, key_size, hash,
                      HashMod(hash, st.map.capacity), 0)

\* ------------------------------------------------------------------------
\* Results of running a piece of code on a table state st = [map, heap]:
\*   kind "ret"  the code returned, leaving st
\*   kind "spin" the code entered a loop it never leaves, with st as it was
\*               on entry and the loop's variables in frame
\*   kind "ub"   the code dereferenced NULL
\* ------------------------------------------------------------------------
NoFrame == [fn |-> "none", entry |-> NULL, idx |-> 0]

Ret(st) == [kind |-> "ret", st |-> st, frame |-> NoFrame, ptr |-> NULL]

RetPtr(st, p) == [kind |-> "ret", st |-> st, frame |-> NoFrame, ptr |-> p]

SpinIn(st, fn, entry, index) ==
    [kind |-> "spin", st |-> st,
     frame |-> [fn |-> fn, entry |-> entry, idx |-> index], ptr |-> NULL]

Undefined(st) == [kind |-> "ub", st |-> st, frame |-> NoFrame, ptr |-> NULL]

\* ------------------------------------------------------------------------
\* apple_map_resize and resize_entry
\* ------------------------------------------------------------------------
\* resize_entry tests entry->key, the key of the bucket being moved, on
\* every iteration; idx is the only thing the loop changes.
resize_entry(st, entry) ==
    LET e == Deref(st, entry)
        idx == HashMod(e.hash, st.map.capacity)
    IN  IF e.key = NULLKEY
        THEN IF st.map.buckets = 0 THEN Undefined(st)
             ELSE RetPtr([st EXCEPT !.heap[st.map.buckets][idx] = e],
                         BucketAt(st, idx))
        ELSE SpinIn(st, "resize_entry", entry, idx)

\* the do-while loop of apple_map_resize, from its top
RECURSIVE resize_loop(_)
resize_loop(st) ==
    LET current == Deref(st, st.map.last).next
    IN  IF current = NULL THEN Undefined(st)
        ELSE IF Deref(st, current).key = NULLKEY
        THEN LET st1 == SetNext(st, st.map.last, Deref(st, current).next)
             IN  IF Deref(st1, st1.map.last).next # NULL
                 THEN resize_loop(st1) ELSE Ret(st1)
        ELSE LET r == resize_entry(st, Deref(st, st.map.last).next)
             IN  IF r.kind # "ret" THEN r
                 ELSE LET st1 == SetNext(r.st, r.st.map.last, r.ptr)
                          st2 == [st1 EXCEPT !.map.last =
                                      Deref(st1, st1.map.last).next]
                      IN  IF Deref(st2, st2.map.last).next # NULL
                          THEN resize_loop(st2) ELSE Ret(st2)

\* mutant of resize_begin: len is not reduced by tombstone_len
resize_begin_keeps_len(st, alloc_ok) ==
    LET capacity == st.map.capacity * RESIZE_FACTOR_PERCENTAGE
        blk == IF alloc_ok THEN capacity ELSE 0
    IN  [map |-> [st.map EXCEPT !.capacity = capacity,
                                !.buckets = blk,
                                !.last = HEAD,
                                !.tombstone_len = 0],
         heap |-> IF alloc_ok
                  THEN [b \in DOMAIN st.heap \cup {blk} |->
                           IF b = blk THEN calloc(capacity) ELSE st.heap[b]]
                  ELSE st.heap]

\* mutant of resize_begin: tombstone_len is not reset
resize_begin_keeps_tombstone_len(st, alloc_ok) ==
    LET capacity == st.map.capacity * RESIZE_FACTOR_PERCENTAGE
        blk == IF alloc_ok THEN capacity ELSE 0
    IN  [map |-> [st.map EXCEPT !.capacity = capacity,
                                !.buckets = blk,
                                !.last = HEAD,
                                !.len = @ - st.map.tombstone_len],
         heap |-> IF alloc_ok
                  THEN [b \in DOMAIN st.heap \cup {blk} |->
                           IF b = blk THEN calloc(capacity) ELSE st.heap[b]]
                  ELSE st.heap]

\* lines 372-380: the new array and the counts; alloc_ok is calloc's outcome
resize_begin(st, alloc_ok) ==
    LET capacity == st.map.capacity * RESIZE_FACTOR_PERCENTAGE
        blk == IF alloc_ok THEN capacity ELSE 0
    IN  [map |-> [st.map EXCEPT !.capacity = capacity,
                                !.buckets = blk,
                                !.last = HEAD,
                                !.len = @ - st.map.tombstone_len,
                                !.tombstone_len = 0],
         heap |-> IF alloc_ok
                  THEN [b \in DOMAIN st.heap \cup {blk} |->
                           IF b = blk THEN calloc(capacity) ELSE st.heap[b]]
                  ELSE st.heap]

\* free(p); free(NULL) does nothing
free(st, p) ==
    [st EXCEPT !.heap = [b \in DOMAIN st.heap \ {p} |-> st.heap[b]]]

apple_map_resize(st, alloc_ok) ==
    LET old_buckets == st.map.buckets
        r == resize_loop(resize_begin(st, alloc_ok))
    IN  IF r.kind # "ret" THEN r ELSE Ret(free(r.st, old_buckets))

\* ------------------------------------------------------------------------
\* The public operations.  A call's result adds to the table state what the
\* caller observes: the return value, the word written through the out
\* pointer, the callback invocations in order, and what growth did.
\* A callback invocation records its arguments and what the bucket it was
\* invoked for held at that moment (slot_key, slot_value).
\* ------------------------------------------------------------------------
Call(kind, st, frame, ret, out, calls, grew, mid) ==
    [kind |-> kind, st |-> st, frame |-> frame, ret |-> ret, out |-> out,
     calls |-> calls, grew |-> grew, mid |-> mid]

Invocation(key, key_size, value, entry) ==
    [key |-> key, key_size |-> key_size, value |-> value,
     slot_key |-> entry.key, slot_value |-> entry.value]

ResolveFrame(r) == [fn |-> "resolve", entry |-> NULL, idx |-> r.idx]

\* mutant of needs_resize: tombstones are not counted
needs_resize_live_only(st) ==
    (st.map.len - st.map.tombstone_len + 1) * MAX_CAPACITY_PERCENTAGE_DEN
        > MAX_CAPACITY_PERCENTAGE_NUM * st.map.capacity

\* map->len + 1 > MAX_CAPACITY_PERCENTAGE * map->capacity, in floats; 0.75
\* and the counts are exact in a float
needs_resize(st) ==
    (st.map.len + 1) * MAX_CAPACITY_PERCENTAGE_DEN
        > MAX_CAPACITY_PERCENTAGE_NUM * st.map.capacity

\* lines 183-186, 227-230, 321-324
resize_if_needed(st, alloc_ok) ==
    IF needs_resize(st) THEN apple_map_resize(st, alloc_ok) ELSE Ret(st)

\* what growth did in a call of the insert family
Grew(st, alloc_ok) ==
    IF ~needs_resize(st) THEN "none"
    ELSE IF apple_map_resize(st, alloc_ok).kind = "ret" THEN "done"
    ELSE apple_map_resize(st, alloc_ok).kind

\* mutant of link_entry: len is not incremented
link_entry_uncounted(st, entry) ==
    LET st1 == SetNext(st, st.map.last, entry)
    IN  [st1 EXCEPT !.map.last = entry,
                    !.heap[entry.blk][entry.idx].next = NULL]

\* mutant of link_entry: the tail pointer is not advanced
link_entry_keeps_tail(st, entry) ==
    LET st1 == SetNext(st, st.map.last, entry)
    IN  [st1 EXCEPT !.heap[entry.blk][entry.idx].next = NULL,
                    !.map.len = @ + 1]

\* map->last->next = entry; map->last = entry; entry->next = NULL; map->len++
link_entry(st, entry) ==
    LET st1 == SetNext(st, st.map.last, entry)
    IN  [st1 EXCEPT !.map.last = entry,
                    !.heap[entry.blk][entry.idx].next = NULL,
                    !.map.len = @ + 1]

get_resolved(st, r) ==
    IF r.kind # "ret"
    THEN Call(r.kind, st, ResolveFrame(r), FALSE, 0, <<>>, "none", st)
    ELSE Call("ret", st, NoFrame,
              Deref(st, BucketAt(st, r.idx)).key # NULLKEY,
              Deref(st, BucketAt(st, r.idx)).value, <<>>, "none", st)

apple_map_get(st, key, key_size) ==
    get_resolved(st, resolve(st, key, key_size, hash_of(key, key_size)))

\* entry->key = key; entry->key_size = key_size; entry->hash = hash
set_key(st, entry, key, key_size, hash) ==
    [st EXCEPT !.heap[entry.blk][entry.idx].key = key,
               !.heap[entry.blk][entry.idx].key_size = key_size,
               !.heap[entry.blk][entry.idx].hash = hash]

\* entry->value = value
set_value(st, entry, value) ==
    [st EXCEPT !.heap[entry.blk][entry.idx].value = value]

\* mutant of insert_entry: the value is stored only in a new entry
insert_entry_new_only(s0, entry, key, key_size, hash, value) ==
    IF Deref(s0, entry).key = NULLKEY
    THEN set_value(set_key(link_entry(s0, entry), entry, key, key_size, hash),
                   entry, value)
    ELSE s0

\* mutant of insert_entry: the entry is linked and keyed also when it
\* already holds the key
insert_entry_always_links(s0, entry, key, key_size, hash, value) ==
    set_value(set_key(link_entry(s0, entry), entry, key, key_size, hash),
              entry, value)

\* lines 191-206, entry being the bucket resolve returned
insert_entry(s0, entry, key, key_size, hash, value) ==
    IF Deref(s0, entry).key = NULLKEY
    THEN set_value(set_key(link_entry(s0, entry), entry, key, key_size, hash),
                   entry, value)
    ELSE set_value(s0, entry, value)

\* lines 188-206, s0 being the table after lines 183-186 and r what resolve
\* returned on it
insert_resolved(s0, r, grew, key, key_size, hash, value) ==
    IF r.kind # "ret"
    THEN Call(r.kind, s0, ResolveFrame(r), FALSE, 0, <<>>, grew, s0)
    ELSE Call("ret",
              insert_entry(s0, BucketAt(s0, r.idx), key, key_size, hash, value),
              NoFrame, FALSE, 0, <<>>, grew, s0)

insert_grown(g, grew, key, key_size, hash, value) ==
    IF g.kind # "ret"
    THEN Call(g.kind, g.st, g.frame, FALSE, 0, <<>>, grew, g.st)
    ELSE insert_resolved(g.st, resolve(g.st, key, key_size, hash), grew,
                         key, key_size, hash, value)

apple_map_insert(st, key, key_size, value, alloc_ok) ==
    insert_grown(resize_if_needed(st, alloc_ok), Grew(st, alloc_ok),
                 key, key_size, hash_of(key, key_size), value)

\* mutant of get_or_insert_resolved: a hit stores the caller's word
get_or_insert_resolved_stores(s0, r, grew, key, key_size, hash, out_in) ==
    IF r.kind # "ret"
    THEN Call(r.kind, s0, ResolveFrame(r), FALSE, out_in, <<>>, grew, s0)
    ELSE Call("ret",
              insert_entry(s0, BucketAt(s0, r.idx), key, key_size, hash,
                           out_in),
              NoFrame, Deref(s0, BucketAt(s0, r.idx)).key # NULLKEY,
              Deref(s0, BucketAt(s0, r.idx)).value, <<>>, grew, s0)

\* lines 235-253; out_in is the word the caller passes by reference
get_or_insert_resolved(s0, r, grew, key, key_size, hash, out_in) ==
    IF r.kind # "ret"
    THEN Call(r.kind, s0, ResolveFrame(r), FALSE, out_in, <<>>, grew, s0)
    ELSE IF Deref(s0, BucketAt(s0, r.idx)).key = NULLKEY
    THEN Call("ret",
              set_key(set_value(link_entry(s0, BucketAt(s0, r.idx)),
                                BucketAt(s0, r.idx), out_in),
                      BucketAt(s0, r.idx), key, key_size, hash),
              NoFrame, FALSE, out_in, <<>>, grew, s0)
    ELSE Call("ret", s0, NoFrame, TRUE, Deref(s0, BucketAt(s0, r.idx)).value,
              <<>>, grew, s0)

get_or_insert_grown(g, grew, key, key_size, hash, out_in) ==
    IF g.kind # "ret"
    THEN Call(g.kind, g.st, g.frame, FALSE, out_in, <<>>, grew, g.st)
    ELSE get_or_insert_resolved(g.st, resolve(g.st, key, key_size, hash), grew,
                                key, key_size, hash, out_in)

apple_map_get_or_insert(st, key, key_size, out_in, alloc_ok) ==
    get_or_insert_grown(resize_if_needed(st, alloc_ok), Grew(st, alloc_ok),
                        key, key_size, hash_of(key, key_size), out_in)

\* mutant of bury: the value word is zeroed, which makes the bucket Empty
bury_empties(st, entry) ==
    [st EXCEPT !.heap[entry.blk][entry.idx].key = NULLKEY,
               !.heap[entry.blk][entry.idx].value = 0,
               !.map.tombstone_len = @ + 1]

\* mutant of bury: tombstone_len is not incremented
bury_uncounted(st, entry) ==
    [st EXCEPT !.heap[entry.blk][entry.idx].key = NULLKEY,
               !.heap[entry.blk][entry.idx].value = TOMBSTONE]

\* mutant of bury: the key reference is not cleared
bury_keeps_key(st, entry) ==
    [st EXCEPT !.heap[entry.blk][entry.idx].value = TOMBSTONE,
               !.map.tombstone_len = @ + 1]

\* lines 271-274, 299-302: the bucket becomes a tombstone
bury(st, entry) ==
    [st EXCEPT !.heap[entry.blk][entry.idx].key = NULLKEY,
               !.heap[entry.blk][entry.idx].value = TOMBSTONE,
               !.map.tombstone_len = @ + 1]

\* mutant of remove_resolved: the bucket resolve returned is turned into a
\* tombstone whether or not it holds a key
remove_resolved_always(st, r) ==
    IF r.kind # "ret"
    THEN Call(r.kind, st, ResolveFrame(r), FALSE, 0, <<>>, "none", st)
    ELSE Call("ret", bury(st, BucketAt(st, r.idx)), NoFrame, FALSE, 0, <<>>,
              "none", st)

remove_resolved(st, r) ==
    IF r.kind # "ret"
    THEN Call(r.kind, st, ResolveFrame(r), FALSE, 0, <<>>, "none", st)
    ELSE IF Deref(st, BucketAt(st, r.idx)).key # NULLKEY
    THEN Call("ret", bury(st, BucketAt(st, r.idx)), NoFrame, FALSE, 0, <<>>,
              "none", st)
    ELSE Call("ret", st, NoFrame, FALSE, 0, <<>>, "none", st)

apple_map_remove(st, key, key_size) ==
    remove_resolved(st, resolve(st, key, key_size, hash_of(key, key_size)))

\* line 297: callback((void *)entry->key, entry->key_size, entry->value, user)
remove_free_callback(e) ==
    <<Invocation(e.key, e.key_size, e.value, e)>>

\* mutant of remove_free_resolved: the callback runs after the bucket was
\* turned into a tombstone
remove_free_resolved_late(st, r) ==
    IF r.kind # "ret"
    THEN Call(r.kind, st, ResolveFrame(r), FALSE, 0, <<>>, "none", st)
    ELSE IF Deref(st, BucketAt(st, r.idx)).key # NULLKEY
    THEN Call("ret", bury(st, BucketAt(st, r.idx)), NoFrame, FALSE, 0,
              remove_free_callback(Deref(bury(st, BucketAt(st, r.idx)),
                                         BucketAt(st, r.idx))),
              "none", st)
    ELSE Call("ret", st, NoFrame, FALSE, 0, <<>>, "none", st)

remove_free_resolved(st, r) ==
    IF r.kind # "ret"
    THEN Call(r.kind, st, ResolveFrame(r), FALSE, 0, <<>>, "none", st)
    ELSE IF Deref(st, BucketAt(st, r.idx)).key # NULLKEY
    THEN Call("ret", bury(st, BucketAt(st, r.idx)), NoFrame, FALSE, 0,
              remove_free_callback(Deref(st, BucketAt(st, r.idx))),
              "none", st)
    ELSE Call("ret", st, NoFrame, FALSE, 0, <<>>, "none", st)

apple_map_remove_free(st, key, key_size) ==
    remove_free_resolved(st, resolve(st, key, key_size,
                                     hash_of(key, key_size)))

\* line 345: callback((void *)entry->key, key_size, entry->value, user)
soft_insert_callback(e, key_size) ==
    <<Invocation(e.key, key_size, e.value, e)>>

\* lines 347-348: entry->key = key; entry->value = value
soft_insert_replace(st, entry, key, value) ==
    [st EXCEPT !.heap[entry.blk][entry.idx].key = key,
               !.heap[entry.blk][entry.idx].value = value]

\* mutant of soft_insert_resolved: the callback runs after the key
\* reference and the value were replaced
soft_insert_resolved_late(s0, r, grew, key, key_size, hash, value) ==
    IF r.kind # "ret"
    THEN Call(r.kind, s0, ResolveFrame(r), FALSE, 0, <<>>, grew, s0)
    ELSE IF Deref(s0, BucketAt(s0, r.idx)).key = NULLKEY
    THEN Call("ret",
              set_key(set_value(link_entry(s0, BucketAt(s0, r.idx)),
                                BucketAt(s0, r.idx), value),
                      BucketAt(s0, r.idx), key, key_size, hash),
              NoFrame, FALSE, 0, <<>>, grew, s0)
    ELSE Call("ret", soft_insert_replace(s0, BucketAt(s0, r.idx), key, value),
              NoFrame, FALSE, 0,
              soft_insert_callback(
                  Deref(soft_insert_replace(s0, BucketAt(s0, r.idx), key,
                                            value),
                        BucketAt(s0, r.idx)),
                  key_size),
              grew, s0)

\* lines 329-348
soft_insert_resolved(s0, r, grew, key, key_size, hash, value) ==
    IF r.kind # "ret"
    THEN Call(r.kind, s0, ResolveFrame(r), FALSE, 0, <<>>, grew, s0)
    ELSE IF Deref(s0, BucketAt(s0, r.idx)).key = NULLKEY
    THEN Call("ret",
              set_key(set_value(link_entry(s0, BucketAt(s0, r.idx)),
                                BucketAt(s0, r.idx), value),
                      BucketAt(s0, r.idx), key, key_size, hash),
              NoFrame, FALSE, 0, <<>>, grew, s0)
    ELSE Call("ret", soft_insert_replace(s0, BucketAt(s0, r.idx), key, value),
              NoFrame, FALSE, 0,
              soft_insert_callback(Deref(s0, BucketAt(s0, r.idx)), key_size),
              grew, s0)

soft_insert_grown(g, grew, key, key_size, hash, value) ==
    IF g.kind # "ret"
    THEN Call(g.kind, g.st, g.frame, FALSE, 0, <<>>, grew, g.st)
    ELSE soft_insert_resolved(g.st, resolve(g.st, key, key_size, hash), grew,
                              key, key_size, hash, value)

apple_map_soft_insert(st, key, key_size, value, alloc_ok) ==
    soft_insert_grown(resize_if_needed(st, alloc_ok), Grew(st, alloc_ok),
                      key, key_size, hash_of(key, key_size), value)

apple_map_len(st) == st.map.len - st.map.tombstone_len

\* the callback invocations of apple_map_iter from bucket `current` on
RECURSIVE iter_from(_, _)
iter_from(st, current) ==
    IF current = NULL THEN <<>>
    ELSE LET e == Deref(st, current)
         IN  (IF e.key # NULLKEY
              THEN <<Invocation(e.key, e.key_size, e.value, e)>>
              ELSE <<>>) \o iter_from(st, e.next)

apple_map_iter(st) == iter_from(st, st.map.first)

\* explicit apple_map_resize(map)
resize_call(st, alloc_ok) ==
    LET g == apple_map_resize(st, alloc_ok)
    IN  Call(g.kind, g.st, g.frame, FALSE, 0, <<>>,
             IF g.kind = "ret" THEN "done" ELSE g.kind, g.st)

\* ------------------------------------------------------------------------
\* What a caller can observe of a table: len, the iter visits, get per key
\* ------------------------------------------------------------------------
View(st) ==
    [len |-> apple_map_len(st),
     iter |-> LET c == apple_map_iter(st)
              IN  [i \in 1..Len(c) |-> <<c[i].key, c[i].key_size, c[i].value>>],
     get |-> [k \in KeyRefs |->
                 LET g == apple_map_get(st, k, KeySize(k))
                 IN  <<g.kind, g.ret, IF g.ret THEN g.out ELSE 0>>]]

NoView == [len |-> 0, iter |-> <<>>, get |-> [k \in KeyRefs |-> <<"none", FALSE, 0>>]]

\* ------------------------------------------------------------------------
\* State
\*   map, heap   struct apple_map and the bucket arrays it points into
\*   pc          "idle" between calls; "resize_entry" / "resolve" inside a
\*               loop that did not exit; "crashed" / "hung" after undefined
\*               behaviour
\*   frame       the variables of the loop pc names
\*   obs         the last call: operation, arguments and what it returned
\*   prev        the table state before the last call
\*   expected    the contract's view: key bytes -> value, NONE when absent
\*   order       the contract's view: live keys in order of creation
\*   ops, warmup exploration budget
\* ------------------------------------------------------------------------
VARIABLES map, heap, pc, frame, obs, prev, expected, order, ops, warmup

vars == <<map, heap, pc, frame, obs, prev, expected, order, ops, warmup>>

St == [map |-> map, heap |-> heap]

NONE == 0 - 1

\* the call the warm-up repeats: insert(WarmupCall), remove(WarmupCall.key)
WarmupCall == [key |-> 1, value |-> 1]

\* a NULL dereference traps or, where page zero is readable, runs on with
\* garbage and never returns
UndefinedOutcomes == {"crashed", "hung"}

Init ==
    /\ map = apple_map_new.map
    /\ heap = apple_map_new.heap
    /\ pc = "idle"
    /\ frame = NoFrame
    /\ obs = [op |-> "new", key |-> NULLKEY, value |-> 0, ret |-> FALSE,
              out |-> 0, calls |-> <<>>, grew |-> "none", was |-> NONE,
              gafter |-> NoView]
    /\ prev = apple_map_new
    /\ expected = [k \in KeyContents |-> NONE]
    /\ order = <<>>
    /\ ops = 0
    /\ warmup = 0

\* The exploration budget.  A run starts with up to MaxWarmup calls that
\* insert and remove one key in turn (which fills the array with tombstones
\* up to the growth threshold), followed by up to MaxOps arbitrary calls.
Admit(is_warmup) ==
    \/ /\ is_warmup
       /\ ops = 0
       /\ warmup < MaxWarmup
       /\ warmup' = warmup + 1
       /\ ops' = ops
    \/ /\ ops < MaxOps
       /\ warmup = 0 \/ warmup >= MinWarmup
       /\ ops' = ops + 1
       /\ warmup' = warmup

\* the call returned c: the new table state and what the caller saw
Commit(op, key, value, c) ==
    /\ map' = c.st.map
    /\ heap' = c.st.heap
    /\ frame' = c.frame
    /\ pc' \in (IF c.kind = "ret" THEN {"idle"}
                ELSE IF c.kind = "spin" THEN {c.frame.fn}
                ELSE UndefinedOutcomes)
    /\ obs' = [op |-> op, key |-> key, value |-> value, ret |-> c.ret,
               out |-> c.out, calls |-> c.calls, grew |-> c.grew,
               was |-> IF key = NULLKEY THEN NONE ELSE expected[KeyMem[key]],
               gafter |-> IF c.grew = "none" THEN NoView ELSE View(c.mid)]
    /\ prev' = St

Put(key, value) ==
    /\ expected' = [expected EXCEPT ![KeyMem[key]] = value]
    /\ order' = IF expected[KeyMem[key]] = NONE
                THEN Append(order, KeyMem[key]) ELSE order

Drop(key) ==
    /\ expected' = [expected EXCEPT ![KeyMem[key]] = NONE]
    /\ order' = SelectSeq(order, LAMBDA k : k # KeyMem[key])

Insert(key, value, alloc_ok) ==
    /\ pc = "idle"
    /\ Admit(key = WarmupCall.key /\ value = WarmupCall.value
             /\ warmup % 2 = 0)
    /\ Commit("insert", key, value,
              apple_map_insert(St, key, KeySize(key), value, alloc_ok))
    /\ Put(key, value)

GetOrInsert(key, value, alloc_ok) ==
    /\ pc = "idle"
    /\ Admit(FALSE)
    /\ Commit("get_or_insert", key, value,
              apple_map_get_or_insert(St, key, KeySize(key), value, alloc_ok))
    /\ IF expected[KeyMem[key]] = NONE THEN Put(key, value)
       ELSE UNCHANGED <<expected, order>>

SoftInsert(key, value, alloc_ok) ==
    /\ pc = "idle"
    /\ Admit(FALSE)
    /\ Commit("soft_insert", key, value,
              apple_map_soft_insert(St, key, KeySize(key), value, alloc_ok))
    /\ Put(key, value)

Remove(key) ==
    /\ pc = "idle"
    /\ Admit(key = WarmupCall.key /\ warmup % 2 = 1)
    /\ Commit("remove", key, 0, apple_map_remove(St, key, KeySize(key)))
    /\ Drop(key)

RemoveFree(key) ==
    /\ pc = "idle"
    /\ Admit(FALSE)
    /\ Commit("remove_free", key, 0,
              apple_map_remove_free(St, key, KeySize(key)))
    /\ Drop(key)

Get(key) ==
    /\ pc = "idle"
    /\ Admit(FALSE)
    /\ Commit("get", key, 0, apple_map_get(St, key, KeySize(key)))
    /\ UNCHANGED <<expected, order>>

Length ==
    /\ pc = "idle"
    /\ Admit(FALSE)
    /\ Commit("len", NULLKEY, 0,
              Call("ret", St, NoFrame, FALSE, apple_map_len(St), <<>>,
                   "none", St))
    /\ UNCHANGED <<expected, order>>

Iter ==
    /\ pc = "idle"
    /\ Admit(FALSE)
    /\ Commit("iter", NULLKEY, 0,
              Call("ret", St, NoFrame, FALSE, 0, apple_map_iter(St),
                   "none", St))
    /\ UNCHANGED <<expected, order>>

Resize(alloc_ok) ==
    /\ pc = "idle"
    /\ Admit(FALSE)
    /\ Commit("resize", NULLKEY, 0, resize_call(St, alloc_ok))
    /\ UNCHANGED <<expected, order>>

\* one more iteration of the loop the call is in: neither exit condition
\* (resize_entry line 407, resolve line 116) holds, and idx advances
Spin ==
    /\ pc \in {"resize_entry", "resolve"}
    /\ pc = "resize_entry" => Deref(St, frame.entry).key # NULLKEY
    /\ pc = "resolve" =>
           ~resolve_hit(heap[map.buckets][frame.idx], obs.key,
                        KeySize(obs.key), hash_of(obs.key, KeySize(obs.key)))
    /\ frame' = [frame EXCEPT !.idx = (@ + 1) % map.capacity]
    /\ UNCHANGED <<map, heap, pc, obs, prev, expected, order, ops, warmup>>

Next ==
    \/ \E key \in KeyRefs, value \in Values, alloc_ok \in BOOLEAN :
           Insert(key, value, alloc_ok)
    \/ \E key \in KeyRefs, value \in Values, alloc_ok \in BOOLEAN :
           GetOrInsert(key, value, alloc_ok)
    \/ \E key \in KeyRefs, value \in Values, alloc_ok \in BOOLEAN :
           SoftInsert(key, value, alloc_ok)
    \/ \E key \in KeyRefs : Remove(key)
    \/ \E key \in KeyRefs : RemoveFree(key)
    \/ \E key \in KeyRefs : Get(key)
    \/ Length
    \/ Iter
    \/ \E alloc_ok \in BOOLEAN : Resize(alloc_ok)
    \/ Spin

Spec == Init /\ [][Next]_vars

\* A call runs to completion on the caller's thread: a loop that can take
\* another iteration does.
FairSpec == Spec /\ WF_vars(Spin)

\* ------------------------------------------------------------------------
\* Properties
\* ------------------------------------------------------------------------
Idle == pc = "idle"

\* the array of buckets exists (no calloc of apple_map_resize has failed)
HasBuckets == map.buckets # 0

Live == {k \in KeyContents : expected[k] # NONE}

\* the visits of iter as (key bytes, length, value)
Visits(st) ==
    LET c == apple_map_iter(st)
    IN  [i \in 1..Len(c) |-> <<KeyMem[c[i].key], c[i].key_size, c[i].value>>]

\* the bucket of st that holds a key with the bytes of `key`
Holds(st, i, key) ==
    /\ st.heap[st.map.buckets][i].key # NULLKEY
    /\ KeyMem[st.heap[st.map.buckets][i].key] = KeyMem[key]

Slots(st) == 0..(st.map.capacity - 1)

\* C1: between calls, get(k) of a key whose last insert-family store was v
\* and that was not removed since returns (true, v); this covers tables that
\* have grown before the insert.
C1_GetAfterInsert ==
    Idle =>
        \A k \in KeyRefs :
            expected[KeyMem[k]] # NONE =>
                LET g == apple_map_get(St, k, KeySize(k))
                IN  g.kind = "ret" /\ g.ret /\ g.out = expected[KeyMem[k]]

\* C1 witness: a get that returned an inserted value from a table that grew
C1_Witness ==
    /\ Idle
    /\ obs.op = "get"
    /\ obs.ret
    /\ obs.out = expected[KeyMem[obs.key]]
    /\ map.capacity > DEFAULT_CAPACITY
    /\ map.len > 1

\* C2: whenever growth runs in a call (automatically or through resize), it
\* completes and get of every key, the visits of iter and len are the same
\* right after growth as right before the call.
C2_GrowthTransparent ==
    obs.grew # "none" => obs.grew = "done" /\ obs.gafter = View(prev)

\* C3: a call that is inside one of the probing loops leaves it and returns.
C3_Terminates ==
    (pc \in {"resize_entry", "resolve"}) ~> (pc = "idle")

\* C4: between calls len() is the number of distinct keys present; an
\* overwriting insert and a remove of an absent key leave len() as it was.
C4_LenCountsKeys ==
    Idle =>
        /\ apple_map_len(St) = Cardinality(Live)
        /\ obs.op = "insert" /\ obs.was # NONE =>
               apple_map_len(St) = apple_map_len(prev)
        /\ obs.op = "remove" /\ obs.was = NONE =>
               apple_map_len(St) = apple_map_len(prev)

\* C4 witness: an overwriting insert in a table with tombstones and two keys
C4_Witness ==
    /\ Idle
    /\ obs.op = "insert"
    /\ obs.was # NONE
    /\ map.tombstone_len > 0
    /\ apple_map_len(St) = 2

\* C5: between calls iter visits exactly the live keys, once each, with
\* their current values, in the order their entries were created; linked
\* tombstones are skipped.
C5_IterOrder ==
    Idle =>
        Visits(St) =
            [i \in 1..Len(order) |->
                <<order[i], Len(order[i]), expected[order[i]]>>]

\* C5 witness: iter returned two or more visits from a list whose first
\* node is a tombstone and whose second live key is older in the array
C5_Witness ==
    /\ Idle
    /\ obs.op = "iter"
    /\ Len(obs.calls) >= 2
    /\ map.tombstone_len > 0
    /\ Deref(St, map.first).key = NULLKEY

\* C6: between calls, get(k) of a key that is not present (removed and not
\* inserted again, or never inserted) returns false.
C6_GetAfterRemove ==
    Idle /\ HasBuckets =>
        \A k \in KeyRefs :
            expected[KeyMem[k]] = NONE =>
                LET g == apple_map_get(St, k, KeySize(k))
                IN  g.kind = "ret" /\ ~g.ret

\* C6 witness: a get that returned false for a key removed two calls ago,
\* with another key inserted in between
C6_Witness ==
    /\ Idle
    /\ obs.op = "get"
    /\ ~obs.ret
    /\ map.tombstone_len > 0
    /\ \E i \in Slots(St) :
           /\ heap[map.buckets][i].value = TOMBSTONE
           /\ heap[map.buckets][i].key = NULLKEY
           /\ heap[map.buckets][i].hash = hash_of(obs.key, KeySize(obs.key))
    /\ Cardinality(Live) >= 1

\* C7: an insert of a present key that triggers no growth changes the value
\* word of the key's bucket and nothing else: map, every other bucket, the
\* links, and with them the iter order and the counts.
C7_OverwriteFrame ==
    Idle /\ obs.op = "insert" /\ obs.was # NONE /\ obs.grew = "none" =>
        /\ map = prev.map
        /\ \E i \in Slots(prev) :
               /\ Holds(prev, i, obs.key)
               /\ heap = [prev.heap EXCEPT
                              ![prev.map.buckets][i].value = obs.value]
        /\ [i \in 1..Len(Visits(St)) |-> Visits(St)[i][1]]
               = [i \in 1..Len(Visits(prev)) |-> Visits(prev)[i][1]]

\* C7 witness: an overwrite with a new value, through another address of
\* the key, in a table that holds a second key
C7_Witness ==
    /\ Idle
    /\ obs.op = "insert"
    /\ obs.was # NONE
    /\ obs.was # obs.value
    /\ obs.grew = "none"
    /\ Cardinality(Live) >= 2
    /\ \E i \in Slots(St) : Holds(St, i, obs.key) /\ heap[map.buckets][i].key # obs.key

\* C8: get_or_insert of an absent key returns false, stores the caller's
\* value under the key and appends the key to the iter order; of a present
\* key it returns true, hands out the stored value and changes nothing.
C8_GetOrInsert ==
    Idle /\ obs.op = "get_or_insert" =>
        IF obs.was = NONE
        THEN /\ ~obs.ret
             /\ apple_map_get(St, obs.key, KeySize(obs.key)).ret
             /\ apple_map_get(St, obs.key, KeySize(obs.key)).out = obs.value
             /\ Visits(St) = Append(Visits(prev),
                    <<KeyMem[obs.key], KeySize(obs.key), obs.value>>)
             /\ apple_map_len(St) = apple_map_len(prev) + 1
        ELSE /\ obs.ret
             /\ obs.out = obs.was
             /\ St = prev

\* C8 witness: a hit with a caller value that differs from the stored one
C8_Witness ==
    /\ Idle
    /\ obs.op = "get_or_insert"
    /\ obs.ret
    /\ obs.value # obs.out
    /\ Cardinality(Live) >= 2

\* C9: soft_insert of a present key invokes the callback once, with the
\* stored key address, the length and the stored value, at a moment where
\* the bucket still holds them, and then stores the new address and value;
\* of an absent key it invokes nothing and leaves what insert leaves.
C9_SoftInsert ==
    Idle /\ obs.op = "soft_insert" =>
        IF obs.was # NONE
        THEN /\ Len(obs.calls) = 1
             /\ \E i \in Slots(prev) :
                    /\ Holds(prev, i, obs.key)
                    /\ obs.calls[1].key = prev.heap[prev.map.buckets][i].key
                    /\ heap[map.buckets][i].key = obs.key
                    /\ heap[map.buckets][i].value = obs.value
             /\ obs.calls[1].key_size = KeySize(obs.key)
             /\ obs.calls[1].value = obs.was
             /\ obs.calls[1].slot_key = obs.calls[1].key
             /\ obs.calls[1].slot_value = obs.was
        ELSE /\ obs.calls = <<>>
             /\ \E a \in BOOLEAN :
                    LET c == apple_map_insert(prev, obs.key, KeySize(obs.key),
                                              obs.value, a)
                    IN  c.kind = "ret" /\ c.st = St

\* C9 witness: a soft_insert that replaced another address and value
C9_Witness ==
    /\ Idle
    /\ obs.op = "soft_insert"
    /\ obs.was # NONE
    /\ Len(obs.calls) = 1
    /\ obs.calls[1].key # obs.key
    /\ obs.calls[1].value # obs.value

\* C10: remove_with_callback invokes the callback once if the key is
\* present and not at all otherwise, with the stored key address, length and
\* value, at a moment where the bucket is not yet a tombstone; the table it
\* leaves is the one remove leaves.
C10_RemoveFree ==
    Idle /\ obs.op = "remove_free" =>
        /\ Len(obs.calls) = (IF obs.was # NONE THEN 1 ELSE 0)
        /\ obs.was # NONE =>
               /\ \E i \in Slots(prev) :
                      /\ Holds(prev, i, obs.key)
                      /\ obs.calls[1].key = prev.heap[prev.map.buckets][i].key
                      /\ obs.calls[1].key_size
                             = prev.heap[prev.map.buckets][i].key_size
                      /\ heap[map.buckets][i].key = NULLKEY
                      /\ heap[map.buckets][i].value = TOMBSTONE
               /\ obs.calls[1].value = obs.was
               /\ obs.calls[1].slot_key = obs.calls[1].key
               /\ obs.calls[1].slot_value = obs.was
        /\ St = apple_map_remove(prev, obs.key, KeySize(obs.key)).st

\* C10 witness: a remove_with_callback of a present key, other keys around
C10_Witness ==
    /\ Idle
    /\ obs.op = "remove_free"
    /\ Len(obs.calls) = 1
    /\ Cardinality(Live) >= 1
    /\ map.tombstone_len >= 2

\* C11: remove and remove_with_callback of a key that is not present leave
\* the whole table (buckets, list, counts, capacity) as it was and invoke no
\* callback.
C11_RemoveAbsent ==
    Idle /\ obs.op \in {"remove", "remove_free"} /\ obs.was = NONE =>
        /\ St = prev
        /\ obs.calls = <<>>

\* C11 witness: a remove of a key that was removed before, from a table that
\* holds its tombstone and another key
C11_Witness ==
    /\ Idle
    /\ obs.op = "remove"
    /\ obs.was = NONE
    /\ Cardinality(Live) >= 1
    /\ \E i \in Slots(St) :
           /\ heap[map.buckets][i].key = NULLKEY
           /\ heap[map.buckets][i].value = TOMBSTONE
           /\ heap[map.buckets][i].hash = hash_of(obs.key, KeySize(obs.key))

\* C12: no state is reachable in which the array of buckets is missing: a
\* failed allocation during growth leaves the table as it was before the call.
C12_AllocFailure ==
    /\ HasBuckets
    /\ map.buckets = map.capacity

\* an Empty bucket: no key reference and the zero value
IsEmpty(b) == b.key = NULLKEY /\ b.value = 0

\* a Tombstone bucket: no key reference and the sentinel value
IsTombstone(b) == b.key = NULLKEY /\ b.value = TOMBSTONE

\* C13: between calls len (Occupied plus Tombstone buckets) is at most
\* 0.75 * capacity and at least one bucket of the array is Empty, so resolve
\* reaches a bucket holding the key or an Empty one.
C13_EmptySlotExists ==
    Idle =>
        /\ map.len * MAX_CAPACITY_PERCENTAGE_DEN
               <= MAX_CAPACITY_PERCENTAGE_NUM * map.capacity
        /\ HasBuckets
        /\ \E i \in Slots(St) : IsEmpty(heap[map.buckets][i])
        /\ \A k \in KeyRefs :
               resolve(St, k, KeySize(k), hash_of(k, KeySize(k))).kind = "ret"

\* C14: in every state 0 <= tombstone_len <= len <= capacity and
\* capacity > 0.
C14_CountsOrdered ==
    /\ 0 <= map.tombstone_len
    /\ map.tombstone_len <= map.len
    /\ map.len <= map.capacity
    /\ map.capacity > 0

\* C14 witness: a table that has grown and holds tombstones and live keys
C14_Witness ==
    /\ Idle
    /\ map.capacity > DEFAULT_CAPACITY
    /\ map.tombstone_len >= 1
    /\ map.len > map.tombstone_len

\* the index resolve starts probing from for `key`
Home(st, key) == HashMod(hash_of(key, KeySize(key)), st.map.capacity)

\* C15: an insert-family call or a remove of key k leaves the result of get
\* unchanged for every key with other bytes, also for keys that start
\* probing at the same index; every live key has a bucket of its own that
\* holds its value.
C15_OtherKeysUntouched ==
    Idle /\ obs.op \in {"insert", "get_or_insert", "soft_insert",
                        "remove", "remove_free"} =>
        /\ \A k2 \in KeyRefs :
               KeyMem[k2] # KeyMem[obs.key] =>
                   /\ apple_map_get(St, k2, KeySize(k2)).kind = "ret"
                   /\ apple_map_get(St, k2, KeySize(k2)).ret
                          = apple_map_get(prev, k2, KeySize(k2)).ret
                   /\ apple_map_get(St, k2, KeySize(k2)).ret =>
                          apple_map_get(St, k2, KeySize(k2)).out
                              = apple_map_get(prev, k2, KeySize(k2)).out
        /\ \A k \in KeyRefs :
               expected[KeyMem[k]] # NONE =>
                   \E i \in Slots(St) :
                       /\ Holds(St, i, k)
                       /\ heap[map.buckets][i].value = expected[KeyMem[k]]

\* C15 witness: a remove left a tombstone at the index where a live key
\* with other bytes starts probing; that key sits further down the path
C15_Witness ==
    /\ Idle
    /\ obs.op = "remove"
    /\ obs.was # NONE
    /\ \E k2 \in KeyRefs :
           /\ KeyMem[k2] # KeyMem[obs.key]
           /\ expected[KeyMem[k2]] # NONE
           /\ Home(St, k2) = Home(St, obs.key)
           /\ IsTombstone(heap[map.buckets][Home(St, k2)])
           /\ ~Holds(St, Home(St, k2), k2)

\* C16: an insert-family call runs growth exactly when len + 1 >
\* 0.75 * capacity at entry, len counting tombstones, whether or not the key
\* is present; get, remove, remove_with_callback, len and iter never run
\* growth and leave capacity and the array as they were.
C16_GrowthTrigger ==
    /\ obs.op \in {"insert", "get_or_insert", "soft_insert"} =>
           /\ (obs.grew # "none") <=>
                  (4 * (prev.map.len + 1) > 3 * prev.map.capacity)
           /\ obs.grew # "none" =>
                  map.capacity = 2 * prev.map.capacity
           /\ obs.grew = "none" =>
                  /\ map.capacity = prev.map.capacity
                  /\ map.buckets = prev.map.buckets
    /\ obs.op \in {"get", "remove", "remove_free", "len", "iter"} =>
           /\ obs.grew = "none"
           /\ map.capacity = prev.map.capacity
           /\ map.buckets = prev.map.buckets

\* C16 witness: an insert of a present key ran growth, in a table whose len
\* reached the threshold through tombstones
C16_Witness ==
    /\ obs.op = "insert"
    /\ obs.was # NONE
    /\ obs.grew # "none"
    /\ prev.map.tombstone_len > 0
    /\ 4 * (prev.map.len - prev.map.tombstone_len + 1) <= 3 * prev.map.capacity

\* the buckets of the list of st from p on, following next; `fuel` bounds
\* the walk so that a cycle shows as a walk longer than the array
RECURSIVE Chain(_, _, _)
Chain(st, p, fuel) ==
    IF p = NULL \/ fuel = 0 THEN <<>>
    ELSE <<p>> \o Chain(st, Deref(st, p).next, fuel - 1)

List(st) == Chain(st, st.map.first, st.map.capacity + 1)

\* what C17 states of the table `after` that growth left, started on
\* `before`
GrowthPost(before, after) ==
    /\ after.map.capacity = 2 * before.map.capacity
    /\ after.map.tombstone_len = 0
    /\ after.map.len = before.map.len - before.map.tombstone_len
    /\ after.map.buckets # 0 =>
           \A i \in Slots(after) :
               ~IsTombstone(after.heap[after.map.buckets][i])
    /\ \A j \in 1..Len(List(after)) :
           ~IsTombstone(Deref(after, List(after)[j]))
    /\ before.map.len = before.map.tombstone_len =>
           /\ after.map.first = NULL
           /\ after.map.last = HEAD
           /\ apple_map_len(after) = 0

\* C17: when growth completes, capacity is doubled, tombstone_len is 0, len
\* is the prior len minus the prior tombstone_len, and neither the new array
\* nor the list holds a tombstone; when every linked entry was a tombstone
\* the table is empty and first is NULL.
C17_GrowthPost ==
    /\ obs.grew = "done" =>
           \A alloc_ok \in BOOLEAN :
               apple_map_resize(prev, alloc_ok).kind = "ret" =>
                   GrowthPost(prev, apple_map_resize(prev, alloc_ok).st)
    /\ Idle /\ obs.op = "resize" => GrowthPost(prev, St)

\* C17 witness: an explicit resize returned on a list of tombstones only
C17_Witness ==
    /\ Idle
    /\ obs.op = "resize"
    /\ obs.grew = "done"
    /\ HasBuckets
    /\ prev.map.tombstone_len >= 2
    /\ map.first = NULL
    /\ map.len = 0

\* C18: resolve never returns a tombstone; an insert-family call of an
\* absent key (without growth) puts the key into a bucket that was Empty,
\* also when a tombstone of the same key is in the array, increments len,
\* leaves tombstone_len alone and appends the key to the iter order.
C18_TombstoneNotReused ==
    /\ Idle /\ HasBuckets =>
           \A k \in KeyRefs :
               /\ resolve(St, k, KeySize(k), hash_of(k, KeySize(k))).kind
                      = "ret"
               /\ ~IsTombstone(heap[map.buckets][
                      resolve(St, k, KeySize(k), hash_of(k, KeySize(k))).idx])
    /\ Idle /\ obs.op \in {"insert", "get_or_insert", "soft_insert"}
            /\ obs.was = NONE /\ obs.grew = "none" =>
           /\ \E i \in Slots(prev) :
                  /\ IsEmpty(prev.heap[prev.map.buckets][i])
                  /\ Holds(St, i, obs.key)
                  /\ heap[map.buckets][i].value = obs.value
           /\ map.len = prev.map.len + 1
           /\ map.tombstone_len = prev.map.tombstone_len
           /\ Visits(St) = Append(Visits(prev),
                  <<KeyMem[obs.key], KeySize(obs.key), obs.value>>)

\* C18 witness: an insert of a key whose tombstone is still in the array,
\* into a table that holds another live key
C18_Witness ==
    /\ Idle
    /\ obs.op = "insert"
    /\ obs.was = NONE
    /\ obs.grew = "none"
    /\ Cardinality(Live) >= 2
    /\ \E i \in Slots(St) :
           /\ IsTombstone(heap[map.buckets][i])
           /\ heap[map.buckets][i].hash = hash_of(obs.key, KeySize(obs.key))
           /\ heap[map.buckets][i].key_size = KeySize(obs.key)

\* the buckets of the current array that are not Empty
NonEmpty(st) ==
    IF st.map.buckets = 0 THEN {}
    ELSE {BucketAt(st, i) : i \in
             {j \in Slots(st) : ~IsEmpty(st.heap[st.map.buckets][j])}}

\* C19: between calls the list from first is acyclic, ends at last (last is
\* the list head when the list is empty), holds exactly the non-Empty
\* buckets of the current array, each once, is len long and holds
\* tombstone_len tombstones; a bucket without key reference holds 0 or
\* 0xDEAD.
C19_ListWellFormed ==
    Idle =>
        /\ Len(List(St)) <= map.capacity
        /\ \A i, j \in 1..Len(List(St)) :
               List(St)[i] = List(St)[j] => i = j
        /\ IF map.first = NULL THEN map.last = HEAD
           ELSE /\ List(St)[Len(List(St))] = map.last
                /\ Deref(St, map.last).next = NULL
        /\ {List(St)[j] : j \in 1..Len(List(St))} = NonEmpty(St)
        /\ Len(List(St)) = map.len
        /\ Cardinality({j \in 1..Len(List(St)) :
                           IsTombstone(Deref(St, List(St)[j]))})
               = map.tombstone_len
        /\ HasBuckets =>
               \A i \in Slots(St) :
                   heap[map.buckets][i].key = NULLKEY =>
                       heap[map.buckets][i].value \in {0, TOMBSTONE}

\* C19 witness: a table that has grown, with a tombstone and two live keys
\* in its list
C19_Witness ==
    /\ Idle
    /\ map.capacity > DEFAULT_CAPACITY
    /\ map.tombstone_len >= 1
    /\ Cardinality(Live) >= 2
    /\ Len(List(St)) >= 3
    /\ map.first # map.last

\* C20: an explicit resize on a table whose list is empty returns and leaves
\* an empty table with doubled capacity.
C20_ResizeOnEmptyList ==
    obs.op = "resize" /\ prev.map.first = NULL =>
        /\ Idle
        /\ map.capacity = 2 * prev.map.capacity
        /\ map.first = NULL
        /\ apple_map_len(St) = 0

====
